---- MODULE Spec2Model ----
(***************************************************************************)
(* Rolling historical VaR backtest of src/quick_charts.py                  *)
(* (plot_var_breaches, lines 98-138).                                      *)
(*                                                                         *)
(* Numbers.  Returns are integers (one unit = one tick of return).  The    *)
(* tail probability ALPHA_VAR is the rational ALPHA_VAR / AlphaDen, so a   *)
(* rolling quantile is a rational with denominator AlphaDen; the column    *)
(* var_95_250d holds its numerator.  A percentage before rounding is the   *)
(* pair <<numerator, denominator>>; after round(x, 2) it is an integer     *)
(* number of hundredths.  A cell of a data frame is <<>> when missing      *)
(* (NaN / NaT) and <<x>> when it holds x.                                  *)
(*                                                                         *)
(* WINDOW_VAR and ALPHA_VAR are module-level settings of the script; they  *)
(* are fixed for a run and drawn at Init from small sets, because a run    *)
(* with the shipped window of 250 rows is out of reach of enumeration.     *)
(* Lines 115-130 (matplotlib calls) change no value that the function      *)
(* returns and are not modelled.                                           *)
(***************************************************************************)
EXTENDS Integers, Sequences, FiniteSets

VARIABLES df, WINDOW_VAR, ALPHA_VAR, pc, d, var_95_250d, is_breach, stats, exc

vars == <<df, WINDOW_VAR, ALPHA_VAR, pc, d, var_95_250d, is_breach, stats, exc>>

----------------------------------------------------------------------------
(* Bounds and input sets *)

\* Longest frame with missing cells and tied dates.
MaxLen == 3

\* Longest gap-free series (every cell present, one row per date).
MaxSeries == 5

\* ALPHA_VAR = 0.05 is 1/20: probabilities are counted in twentieths.
AlphaDen == 20

Dates == {1, 2, 3}

\* Returns of the gap-free series.
Returns == {-2, 0, 1}

\* Returns of the frames with missing cells and tied dates.
FrameReturns == {-2, 1}

Windows == {-1, 0, 1, 2, 3, 4}

Alphas == {0, 1, 10, 15, 20, 21}

Missing == <<>>

IsNa(c) == c = Missing

DateCells == {<<t>> : t \in Dates} \cup {Missing}

ReturnCells == {<<r>> : r \in FrameReturns} \cup {Missing}

\* ORDER BY trade_date of load_data: ascending, NULLs last, ties in any order.
OrderedByTradeDate(ds) ==
    \A i \in 1..(Len(ds) - 1) :
        \/ IsNa(ds[i + 1])
        \/ (~IsNa(ds[i]) /\ ds[i][1] <= ds[i + 1][1])

\* What the query of load_data can deliver: short frames with any mix of
\* missing cells and tied dates, and longer series with neither.
load_data ==
    UNION {
        { [i \in 1..n |-> [trade_date |-> ds[i], daily_return |-> rs[i]]] :
            ds \in {x \in [1..n -> DateCells] : OrderedByTradeDate(x)},
            rs \in [1..n -> ReturnCells] }
        : n \in 0..MaxLen }
    \cup
    UNION {
        { [i \in 1..n |-> [trade_date |-> <<i>>, daily_return |-> <<rs[i]>>]] :
            rs \in [1..n -> Returns] }
        : n \in 0..MaxSeries }

NoStats == <<>>

----------------------------------------------------------------------------
(* Helpers *)

RECURSIVE SeqSum(_)
SeqSum(s) == IF s = <<>> THEN 0 ELSE (IF Head(s) THEN 1 ELSE 0) + SeqSum(Tail(s))

Indices(s) == 1..Len(s)

\* The positions of s that keep(s[i]) selects, in order.
RECURSIVE Keep(_, _, _)
Keep(s, flags, i) ==
    IF i > Len(s) THEN <<>>
    ELSE (IF flags[i] THEN <<s[i]>> ELSE <<>>) \o Keep(s, flags, i + 1)

\* Position labels of a frame read from the database: 1..Len(df).
WithIndex(frame) ==
    [i \in Indices(frame) |->
        [index |-> i,
         trade_date |-> frame[i].trade_date,
         daily_return |-> frame[i].daily_return]]

\* Variant: fillna(0) on the returns before dropna(), so a row without a
\* return is kept with a return of 0.
dropna_fill(frame) ==
    Keep([i \in Indices(frame) |->
             [frame[i] EXCEPT !.daily_return = IF IsNa(@) THEN <<0>> ELSE @]],
         [i \in Indices(frame) |-> ~IsNa(frame[i].trade_date)],
         1)

\* DataFrame.dropna(): a row stays when none of its cells is missing.
dropna(frame) ==
    Keep(frame,
         [i \in Indices(frame) |->
             ~IsNa(frame[i].trade_date) /\ ~IsNa(frame[i].daily_return)],
         1)

\* The frame without its i-th row.
Without(frame, i) == SubSeq(frame, 1, i - 1) \o SubSeq(frame, i + 1, Len(frame))

\* Variant: sort_values("daily_return").
RECURSIVE sort_values_by_return(_)
sort_values_by_return(frame) ==
    IF frame = <<>> THEN {<<>>}
    ELSE UNION {
            {<<frame[i]>> \o rest : rest \in sort_values_by_return(Without(frame, i))}
            : i \in {k \in Indices(frame) :
                        \A j \in Indices(frame) :
                            frame[k].daily_return[1] <= frame[j].daily_return[1]} }

\* DataFrame.sort_values("trade_date"): ascending by date.  The default
\* sort is not stable, so rows of equal date may come out in any order: the
\* result is any arrangement that starts with a row of the earliest date
\* and goes on with an arrangement of the other rows.
RECURSIVE sort_values(_)
sort_values(frame) ==
    IF frame = <<>> THEN {<<>>}
    ELSE UNION {
            {<<frame[i]>> \o rest : rest \in sort_values(Without(frame, i))}
            : i \in {k \in Indices(frame) :
                        \A j \in Indices(frame) :
                            frame[k].trade_date[1] <= frame[j].trade_date[1]} }

\* Ascending insertion sort of a sequence of integers.
RECURSIVE Insert(_, _)
Insert(x, s) ==
    IF s = <<>> THEN <<x>>
    ELSE IF x <= Head(s) THEN <<x>> \o s
    ELSE <<Head(s)>> \o Insert(x, Tail(s))

RECURSIVE SortSeq(_)
SortSeq(s) == IF s = <<>> THEN <<>> ELSE Insert(Head(s), SortSeq(Tail(s)))

roll_min(win) == CHOOSE x \in {win[i] : i \in Indices(win)} : \A i \in Indices(win) : x <= win[i]

roll_max(win) == CHOOSE x \in {win[i] : i \in Indices(win)} : \A i \in Indices(win) : x >= win[i]

\* Variant: interpolation "lower", the order statistic at int(q * (nobs - 1)).
quantile_lower(win, alpha) ==
    AlphaDen * SortSeq(win)[((alpha * (Len(win) - 1)) \div AlphaDen) + 1]

\* Rolling.quantile(q) over one full window, interpolation "linear":
\* q = 0 is the rolling minimum, q = 1 the rolling maximum, otherwise
\* idx_with_fraction = q * (nobs - 1), idx = int(idx_with_fraction), and the
\* result is v[idx] when the fraction is zero, else
\* v[idx] + (v[idx + 1] - v[idx]) * (idx_with_fraction - idx).
\* The value is the numerator over AlphaDen.
quantile(win, alpha) ==
    LET v == SortSeq(win)
        idx_with_fraction == alpha * (Len(win) - 1)
        idx == idx_with_fraction \div AlphaDen
        frac == idx_with_fraction % AlphaDen
    IN  IF alpha = 0 THEN AlphaDen * roll_min(win)
        ELSE IF alpha = AlphaDen THEN AlphaDen * roll_max(win)
        ELSE IF frac = 0 THEN AlphaDen * v[idx + 1]
        ELSE AlphaDen * v[idx + 1] + (v[idx + 2] - v[idx + 1]) * frac

\* Variant: rolling(window, min_periods=1), a threshold from the first row on.
rolling_quantile_min_periods_1(series, window, alpha) ==
    [i \in Indices(series) |->
        IF window = 0 THEN Missing
        ELSE <<quantile(SubSeq(series, IF i > window THEN i - window + 1 ELSE 1, i), alpha)>>]

\* Variant: rolling(window).quantile(alpha).shift(1), the threshold of a row
\* comes from the window that ends on the row before it.
rolling_quantile_lagged(series, window, alpha) ==
    [i \in Indices(series) |->
        IF window = 0 \/ i - 1 < window THEN Missing
        ELSE <<quantile(SubSeq(series, i - window, i - 1), alpha)>>]

\* Series.rolling(window).quantile(alpha): min_periods defaults to the
\* window, so a position with fewer than `window` rows behind it is NaN; a
\* window of 0 rows gives NaN everywhere.
rolling_quantile(series, window, alpha) ==
    [i \in Indices(series) |->
        IF window = 0 \/ i < window THEN Missing
        ELSE <<quantile(SubSeq(series, i - window + 1, i), alpha)>>]

\* rolling() rejects a negative window and quantile() a q outside [0, 1].
RollingRaises(window, alpha) == window < 0 \/ alpha < 0 \/ alpha > AlphaDen

\* Variant: d["daily_return"] <= d["var_95_250d"].
less_equal(frame, column) ==
    [i \in Indices(frame) |-> AlphaDen * frame[i].daily_return[1] <= column[i][1]]

\* d["daily_return"] < d["var_95_250d"], element by element.
less_than(frame, column) ==
    [i \in Indices(frame) |-> AlphaDen * frame[i].daily_return[1] < column[i][1]]

\* Variant: len(df), the rows read instead of the rows tested.
len_df(frame) == Len(df)

\* len(d)
days_tested_of(frame) == Len(frame)

\* int(d["is_breach"].sum())
breaches_of(column) == SeqSum(column)

\* Variant: 100.0 * breaches / days_tested without the guard.
breach_pct_unguarded(breaches, days_tested) == <<100 * breaches, days_tested>>

\* 100.0 * breaches / days_tested if days_tested else 0.0, as <<num, den>>;
\* a zero denominator stands for the division raising ZeroDivisionError.
breach_pct_of(breaches, days_tested) ==
    IF days_tested # 0 THEN <<100 * breaches, days_tested>> ELSE <<0, 1>>

\* Variant: the hundredths cut off instead of rounded.
round2_truncate(x) == (100 * x[1]) \div x[2]

\* round(x, 2) of x = num / den >= 0, in hundredths (ties go to the even digit).
round2(x) ==
    LET q == (100 * x[1]) \div x[2]
        r == (100 * x[1]) % x[2]
    IN  IF 2 * r < x[2] THEN q
        ELSE IF 2 * r > x[2] THEN q + 1
        ELSE IF q % 2 = 0 THEN q ELSE q + 1

\* 100.0 * ALPHA_VAR, numerator over AlphaDen.
expected_pct_of(alpha) == 100 * alpha

----------------------------------------------------------------------------
(* The run *)

Init ==
    /\ df \in load_data
    /\ WINDOW_VAR \in Windows
    /\ ALPHA_VAR \in Alphas
    /\ pc = "start"
    /\ d = <<>>
    /\ var_95_250d = <<>>
    /\ is_breach = <<>>
    /\ stats = NoStats
    /\ exc = "none"

\* line 99: d = df[["trade_date", "daily_return"]].dropna().copy()
DropNa ==
    /\ pc = "start"
    /\ d' = dropna(WithIndex(df))
    /\ pc' = "sort"
    /\ UNCHANGED <<df, WINDOW_VAR, ALPHA_VAR, var_95_250d, is_breach, stats, exc>>

\* line 100: d = d.sort_values("trade_date")
SortValues ==
    /\ pc = "sort"
    /\ d' \in sort_values(d)
    /\ pc' = "rolling"
    /\ UNCHANGED <<df, WINDOW_VAR, ALPHA_VAR, var_95_250d, is_breach, stats, exc>>

\* line 103: d["var_95_250d"] = d["daily_return"].rolling(WINDOW_VAR).quantile(ALPHA_VAR)
RollingQuantile ==
    /\ pc = "rolling"
    /\ IF RollingRaises(WINDOW_VAR, ALPHA_VAR)
       THEN /\ exc' = "ValueError"
            /\ pc' = "raised"
            /\ UNCHANGED var_95_250d
       ELSE /\ var_95_250d' =
                  rolling_quantile([i \in Indices(d) |-> d[i].daily_return[1]],
                                   WINDOW_VAR, ALPHA_VAR)
            /\ pc' = "dropna_var"
            /\ UNCHANGED exc
    /\ UNCHANGED <<df, WINDOW_VAR, ALPHA_VAR, d, is_breach, stats>>

\* line 104: d = d.dropna(subset=["var_95_250d"])
DropNaVar ==
    /\ pc = "dropna_var"
    /\ LET keep == [i \in Indices(d) |-> ~IsNa(var_95_250d[i])]
       IN  /\ d' = Keep(d, keep, 1)
           /\ var_95_250d' = Keep(var_95_250d, keep, 1)
    /\ pc' = "classify"
    /\ UNCHANGED <<df, WINDOW_VAR, ALPHA_VAR, is_breach, stats, exc>>

\* line 106: d["is_breach"] = d["daily_return"] < d["var_95_250d"]
Classify ==
    /\ pc = "classify"
    /\ is_breach' = less_than(d, var_95_250d)
    /\ pc' = "summary"
    /\ UNCHANGED <<df, WINDOW_VAR, ALPHA_VAR, d, var_95_250d, stats, exc>>

\* lines 108-113 and 132-138: the summary statistics and the returned dict
Summarise ==
    /\ pc = "summary"
    /\ LET days_tested == days_tested_of(d)
           breaches == breaches_of(is_breach)
           breach_pct == breach_pct_of(breaches, days_tested)
           expected_pct == expected_pct_of(ALPHA_VAR)
       IN  IF breach_pct[2] = 0
           THEN /\ exc' = "ZeroDivisionError"
                /\ pc' = "raised"
                /\ UNCHANGED stats
           ELSE /\ stats' = [days_tested |-> days_tested,
                             breaches |-> breaches,
                             breach_pct |-> round2(breach_pct),
                             expected_breach_pct |-> expected_pct]
                /\ pc' = "done"
                /\ UNCHANGED exc
    /\ UNCHANGED <<df, WINDOW_VAR, ALPHA_VAR, d, var_95_250d, is_breach>>

Next ==
    \/ DropNa
    \/ SortValues
    \/ RollingQuantile
    \/ DropNaVar
    \/ Classify
    \/ Summarise

Spec == Init /\ [][Next]_vars

----------------------------------------------------------------------------
(* Vocabulary of the properties *)

\* A row of the input that holds both a date and a return.
Valid(row) == ~IsNa(row.trade_date) /\ ~IsNa(row.daily_return)

ValidIndices == {i \in Indices(df) : Valid(df[i])}

NumValid == Cardinality(ValidIndices)

\* How many valid rows of the input stand at or before row i.
Rank(i) == Cardinality({j \in ValidIndices : j <= i})

Max0(x) == IF x > 0 THEN x ELSE 0

\* The thresholds exist and the undefined ones are not dropped yet.
Rolled == pc = "dropna_var"

\* The records are final (lines 104 onwards leave the rows alone).
Classified == pc \in {"summary", "done"}

Returned == pc = "done"

\* k-th smallest (k = 0 is the smallest) of the values of win, by counting.
OrderStat(win, k) ==
    CHOOSE x \in {win[i] : i \in Indices(win)} :
        /\ Cardinality({i \in Indices(win) : win[i] < x}) <= k
        /\ k < Cardinality({i \in Indices(win) : win[i] <= x})

\* The returns of the rows i - window + 1 .. i of d.
Trailing(i, window) == [k \in 1..window |-> d[i - window + k].daily_return[1]]

\* AlphaDen times the quantile of section 4.1 step 2:
\* v[floor(h)] + (h - floor(h)) * (v[ceil(h)] - v[floor(h)]), h = alpha * (window - 1).
InterpolatedQuantile(win, alpha) ==
    LET hNum == alpha * (Len(win) - 1)
        lo == hNum \div AlphaDen
        hi == (hNum + AlphaDen - 1) \div AlphaDen
    IN  AlphaDen * OrderStat(win, lo)
          + (hNum - AlphaDen * lo) * (OrderStat(win, hi) - OrderStat(win, lo))

UniqueDates ==
    \A i, j \in ValidIndices : i # j => df[i].trade_date # df[j].trade_date

InvalidParameter == ALPHA_VAR <= 0 \/ ALPHA_VAR >= AlphaDen \/ WINDOW_VAR < 1

Ret(i) == d[i].daily_return[1]

OutputIndices == {d[i].index : i \in Indices(d)}

AcceptedByRolling == WINDOW_VAR >= 0 /\ 0 <= ALPHA_VAR /\ ALPHA_VAR <= AlphaDen

----------------------------------------------------------------------------
(* Properties *)

\* C1: for a window >= 1 the rolling threshold of the row at position i of
\* the filtered, date-sorted rows (i counted from 0) is undefined exactly
\* when i < window - 1; dropping the undefined thresholds leaves exactly the
\* rows at positions window-1 .. n-1, that is max(0, n - window + 1) records,
\* and no later step adds or removes a record.
C1_ThresholdDefinedFromWindow ==
    [][WINDOW_VAR >= 1 =>
        /\ Rolled' =>
              /\ Len(d') = NumValid
              /\ Len(var_95_250d') = Len(d')
              /\ \A i \in Indices(d') : IsNa(var_95_250d'[i]) <=> i < WINDOW_VAR
        /\ Rolled =>
              /\ d' = (IF WINDOW_VAR <= Len(d) THEN SubSeq(d, WINDOW_VAR, Len(d)) ELSE <<>>)
              /\ Len(d') = Max0(NumValid - WINDOW_VAR + 1)
        /\ pc \in {"classify", "summary"} => d' = d]_vars

C1_Witness ==
    /\ Returned
    /\ WINDOW_VAR = 3
    /\ NumValid = 5
    /\ Len(d) = 3

\* C2: in the final records is_breach is true exactly when the record's
\* return is strictly below the record's own threshold; a return equal to
\* or above its threshold is not a breach.
C2_BreachIffStrictlyBelow ==
    Classified =>
        /\ Len(is_breach) = Len(d)
        /\ Len(var_95_250d) = Len(d)
        /\ \A i \in Indices(d) :
              /\ AlphaDen * Ret(i) < var_95_250d[i][1] => is_breach[i]
              /\ AlphaDen * Ret(i) >= var_95_250d[i][1] => ~is_breach[i]

C2_Witness ==
    /\ Returned
    /\ \E i, j \in Indices(d) :
          /\ is_breach[i]
          /\ AlphaDen * Ret(j) = var_95_250d[j][1]
          /\ ~is_breach[j]

\* C3: at every position i >= window - 1 the threshold is the
\* linear-interpolation quantile of the window rows ending at i inclusive:
\* v[floor(h)] + (h - floor(h)) * (v[ceil(h)] - v[floor(h)]) with v the
\* ascending order statistics of those returns and h = alpha * (window - 1).
C3_ThresholdIsInterpolatedQuantile ==
    (Rolled /\ WINDOW_VAR >= 1) =>
        \A i \in Indices(d) :
            i >= WINDOW_VAR =>
                var_95_250d[i] = <<InterpolatedQuantile(Trailing(i, WINDOW_VAR), ALPHA_VAR)>>

C3_Witness ==
    /\ Rolled
    /\ WINDOW_VAR = 3
    /\ ALPHA_VAR = 15
    /\ \E i \in Indices(d) :
          /\ i >= WINDOW_VAR
          /\ i < Len(d)
          /\ OrderStat(Trailing(i, WINDOW_VAR), 1) < OrderStat(Trailing(i, WINDOW_VAR), 2)
          /\ AlphaDen * OrderStat(Trailing(i, WINDOW_VAR), 1) < var_95_250d[i][1]
          /\ var_95_250d[i][1] < AlphaDen * OrderStat(Trailing(i, WINDOW_VAR), 2)

\* C4: the returned summary agrees with the records: days_tested is the
\* number of records (each with a defined threshold), breaches is the number
\* of records flagged is_breach, and 0 <= breaches <= days_tested.
C4_SummaryMatchesRecords ==
    Returned =>
        /\ stats.days_tested = Len(d)
        /\ stats.days_tested = Cardinality({i \in Indices(var_95_250d) : ~IsNa(var_95_250d[i])})
        /\ stats.breaches = Cardinality({i \in Indices(is_breach) : is_breach[i]})
        /\ 0 <= stats.breaches
        /\ stats.breaches <= stats.days_tested

C4_Witness ==
    /\ Returned
    /\ Len(df) > Len(d)
    /\ stats.days_tested = 4
    /\ stats.breaches = 1

\* C5: with alpha outside the open interval (0, 1) or window < 1 the
\* backtest never returns records or a summary.
C5_InvalidParameterNeverReturns ==
    InvalidParameter => (~Returned /\ stats = NoStats)

\* C6: with fewer valid observations than the window (an empty input
\* included) nothing is raised, and what is returned is no record and the
\* summary days_tested = 0, breaches = 0, breach_pct = 0.0,
\* expected_breach_pct = 100 * alpha.
C6_ShortHistoryIsEmptyNotError ==
    (NumValid < WINDOW_VAR /\ AcceptedByRolling) =>
        /\ exc = "none"
        /\ pc # "raised"
        /\ Returned =>
              /\ d = <<>>
              /\ stats = [days_tested |-> 0,
                          breaches |-> 0,
                          breach_pct |-> 0,
                          expected_breach_pct |-> 100 * ALPHA_VAR]

C6_Witness ==
    /\ Returned
    /\ ALPHA_VAR = 1
    /\ NumValid >= 1
    /\ NumValid < WINDOW_VAR
    /\ WINDOW_VAR <= Len(df)

\* C7: when the valid input rows have pairwise different dates, the output
\* records are the valid input rows from the window-th on, each with the
\* date and the return it had in the input, in the order of the input.
C7_OutputKeepsInputOrder ==
    (Returned /\ UniqueDates /\ WINDOW_VAR >= 1) =>
        /\ \A i \in Indices(d) :
              /\ d[i].index \in ValidIndices
              /\ d[i].trade_date = df[d[i].index].trade_date
              /\ d[i].daily_return = df[d[i].index].daily_return
        /\ \A i, j \in Indices(d) : i < j => d[i].index < d[j].index
        /\ OutputIndices = {j \in ValidIndices : Rank(j) >= WINDOW_VAR}

C7_Witness ==
    /\ Returned
    /\ UniqueDates
    /\ NumValid < Len(df)
    /\ Len(d) >= 2
    /\ Ret(1) > Ret(2)
    /\ var_95_250d[1][1] > var_95_250d[2][1]

\* C8: breach_pct is 100 * breaches / days_tested rounded to the nearest
\* hundredth when days_tested > 0 and 0.0 when days_tested = 0, so it lies
\* in [0, 100]; expected_breach_pct is 100 * alpha, not rounded.
C8_BreachPctRounded ==
    Returned =>
        /\ stats.days_tested > 0 =>
              /\ 2 * (stats.breach_pct * stats.days_tested - 10000 * stats.breaches)
                    <= stats.days_tested
              /\ 2 * (10000 * stats.breaches - stats.breach_pct * stats.days_tested)
                    <= stats.days_tested
        /\ stats.days_tested = 0 => stats.breach_pct = 0
        /\ 0 <= stats.breach_pct
        /\ stats.breach_pct <= 10000
        /\ stats.expected_breach_pct = 100 * ALPHA_VAR

C8_Witness ==
    /\ Returned
    /\ stats.days_tested = 3
    /\ stats.breaches = 2
    /\ stats.breach_pct = 6667
    /\ stats.expected_breach_pct = 100

\* C9: with window = 1 every valid row gets a threshold, the threshold is
\* the row's own return, days_tested is the number of valid rows and there
\* is no breach.
C9_WindowOneHasNoBreach ==
    WINDOW_VAR = 1 =>
        /\ Rolled =>
              /\ Len(var_95_250d) = Len(d)
              /\ \A i \in Indices(d) : var_95_250d[i] = <<AlphaDen * Ret(i)>>
        /\ Returned =>
              /\ stats.days_tested = NumValid
              /\ stats.breaches = 0
              /\ \A i \in Indices(d) : ~is_breach[i]

C9_Witness ==
    /\ Returned
    /\ WINDOW_VAR = 1
    /\ ALPHA_VAR = 1
    /\ stats.days_tested = 4
    /\ Ret(2) < Ret(1)

\* C10: rows without a return or without a date leave the frame before the
\* window is formed and no value is put in their place: every row the
\* function works on is a valid input row with its own date and return, the
\* windows run over the valid rows only, and days_tested and breaches count
\* valid rows only.
C10_MissingRowsAreDroppedNotImputed ==
    /\ pc # "start" =>
          \A i \in Indices(d) :
              /\ d[i].index \in ValidIndices
              /\ d[i].trade_date = df[d[i].index].trade_date
              /\ d[i].daily_return = df[d[i].index].daily_return
    /\ pc \in {"sort", "rolling", "dropna_var"} =>
          /\ Len(d) = NumValid
          /\ OutputIndices = ValidIndices
    /\ (Rolled /\ WINDOW_VAR >= 1) =>
          Cardinality({i \in Indices(d) : ~IsNa(var_95_250d[i])})
              = Max0(NumValid - WINDOW_VAR + 1)
    /\ (Returned /\ WINDOW_VAR >= 1) =>
          /\ stats.days_tested = Max0(NumValid - WINDOW_VAR + 1)
          /\ stats.breaches <= Max0(NumValid - WINDOW_VAR + 1)

C10_Witness ==
    /\ Returned
    /\ WINDOW_VAR = 2
    /\ Len(df) = 3
    /\ Valid(df[1])
    /\ IsNa(df[2].daily_return)
    /\ Valid(df[3])
    /\ stats.days_tested = 1
    /\ stats.breaches = 1

====
